---- MODULE Spec2Model ----
(***************************************************************************)
(* Link resolution (cache-aside redirect with safety gate) and the         *)
(* asynchronous link-analysis pipeline of linkly_backend.                  *)
(*                                                                         *)
(* Every `await` of a handler is one step: what happens between two awaits *)
(* runs without interruption on the Node.js event loop, and the awaited    *)
(* MongoDB / Redis command is atomic at the server.                        *)
(***************************************************************************)
EXTENDS Integers, Sequences, FiniteSets, TLC

\* ------------------------------------------------------------------------
\* Bounds of the model
\* ------------------------------------------------------------------------
MaxLinks == 1
MaxResolvers == 2
MaxJobs == 2
MaxWorkers == 1

MaxColls == 1
MaxChunks == 3
MaxViews == 2

LinkIds == 1..MaxLinks
Resolvers == 1..MaxResolvers
JobIds == 1..MaxJobs

\* The categories that have a system collection (three of the eleven of the
\* service: the ones the analyses of the model return); user collections take the _ids 1..MaxColls, the system
\* collection of the k-th category takes MaxColls + k
SYSTEM_CATEGORIES == <<"News/Current Affairs", "Scam/Phishing/Unsafe", "Other">>
CollIds == 1..(MaxColls + Len(SYSTEM_CATEGORIES))
UserCollIds == 1..MaxColls

\* Inputs drawn from small sets. Short codes and destinations are opaque, so
\* the k-th link created takes the k-th code and the k-th destination, and
\* UnknownCode is a code that no link ever gets.
CodeSeq == <<"a", "b">>
UrlSeq == <<"u1", "u2">>
UnknownCode == "zz"
Codes == {CodeSeq[i] : i \in 1..Len(CodeSeq)} \cup {UnknownCode}
Urls == {UrlSeq[i] : i \in 1..Len(UrlSeq)}

\* ------------------------------------------------------------------------
\* Program constants
\* ------------------------------------------------------------------------
SafetyThreshold == 3
attempts == 3
MinContentLength == 100
characterThreshold == 4000
tokenLimit == 12000
maxRetries == 3

\* JavaScript null / undefined for string-valued fields
Null == "null"
Undefined == "undefined"

\* ------------------------------------------------------------------------
\* State
\* ------------------------------------------------------------------------
VARIABLES
    links,    \* Link collection of the repository, by _id
    cache,    \* Redis key link:<shortId>
    req,      \* calls of handleRedirect
    jobs,     \* link-analysis queue: the jobs and their processor's position
    editor,   \* the call of editLongUrl in progress
    preWrite, \* history: per cache key, the jobs whose COMPLETED write came
              \* after the entry now in the cache was written
    pipeline, \* one run of the long-text path of analyzeUrlContent
    colls,    \* Collection collection of the repository, by _id
    linkColls,   \* the collections path of each link
    collOp,      \* the call of a collection handler in progress
    filer,       \* each job's call of assignLinkToSystemCollection
    deleter,     \* the call of deleteUrl in progress
    shortEditor  \* the call of editShortUrl in progress

collVars == <<colls, linkColls, collOp, filer>>
lifeVars == <<deleter, shortEditor>>
vars == <<links, cache, req, jobs, editor, preWrite, pipeline, collVars, lifeVars>>

\* linkSchema with its defaults; state "none" is an _id not yet created.
\* aiClassification is a nested path, assigned and saved as one object; its
\* confidence is counted in tenths
linkSchema ==
    [state |-> "none", shortId |-> "", longUrl |-> "", viewerCount |-> 0,
     aiSafetyRating |-> 0, aiSafetyJustification |-> Null,
     aiClassification |-> [category |-> "Other", confidence |-> 0],
     analysisStatus |-> "PENDING"]

NoEntry ==
    [present |-> FALSE, longUrl |-> "", analysisStatus |-> "PENDING",
     aiSafetyRating |-> 0, aiSafetyJustification |-> Null]

\* JSON.stringify of an object whose status was overwritten
toObjectCompleted(link) ==
    [present |-> TRUE, longUrl |-> link.longUrl,
     analysisStatus |-> "COMPLETED",
     aiSafetyRating |-> link.aiSafetyRating,
     aiSafetyJustification |-> link.aiSafetyJustification]

\* JSON.stringify(link.toObject()): the fields of the entry that are read back
toObject(link) ==
    [present |-> TRUE, longUrl |-> link.longUrl,
     analysisStatus |-> link.analysisStatus,
     aiSafetyRating |-> link.aiSafetyRating,
     aiSafetyJustification |-> link.aiSafetyJustification]

NoResult == [kind |-> "None", destination |-> "", reason |-> ""]

\* encodeURIComponent of a query parameter
encodeURIComponent(v) == <<"enc", v>>

Live(l) == links[l].state = "live"

\* Link.findOne({ shortId }): the _id of the link with this short code, or 0
FindByShortId(ls, c) ==
    IF \E l \in LinkIds : ls[l].state = "live" /\ ls[l].shortId = c
    THEN CHOOSE l \in LinkIds : ls[l].state = "live" /\ ls[l].shortId = c
    ELSE 0

\* The redirect-relevant fields of the link stored under a short code
RepoView(ls, c) ==
    IF FindByShortId(ls, c) = 0 THEN NoEntry
    ELSE toObject(ls[FindByShortId(ls, c)])

\* document.save(): $set of the paths whose value differs from the loaded one
SaveModified(stored, loaded, doc) ==
    [f \in DOMAIN stored |-> IF doc[f] # loaded[f] THEN doc[f] ELSE stored[f]]

\* The document a handler holds: the paths it goes on to read or assign (the
\* others are loaded too, stay unmodified and are never written back)
Loaded(link, paths) ==
    [f \in DOMAIN link |-> IF f \in paths THEN link[f] ELSE linkSchema[f]]

\* ------------------------------------------------------------------------
\* Analysis engine
\* ------------------------------------------------------------------------
\* scrapeTextFromUrl returns null or the page text; a text is modelled by its
\* length, NoText is null
NoText == -1
TextSamples == {NoText, 99, 100, 4001}

\* What the external capability answers to the calls of one analysis
Capability == [verdict : {"safe", "unsafe"}, fault : {"none", "malformed", "error"}]

NoAnalysis ==
    [summary |-> Null, tags |-> {},
     safety |-> [safety_rating |-> 0, justification |-> Null],
     classification |-> [category |-> Null, confidence |-> 0]]

\* The result returned when there is not enough text
Fallback ==
    [summary |-> "Could not extract sufficient text content from this URL.",
     tags |-> {},
     safety |-> [safety_rating |-> 3, justification |-> "Unable to analyze content."],
     classification |-> [category |-> "Other", confidence |-> 5]]

\* The parsed answer of the capability
Parsed(g) ==
    IF g.verdict = "unsafe"
    THEN [summary |-> "s", tags |-> {"t"},
          safety |-> [safety_rating |-> 2, justification |-> "e"],
          classification |-> [category |-> "Scam/Phishing/Unsafe", confidence |-> 9]]
    ELSE [summary |-> "s", tags |-> {"t"},
          safety |-> [safety_rating |-> 4, justification |-> "e"],
          classification |-> [category |-> "News/Current Affairs", confidence |-> 9]]

\* textChunks.length in getSummarizationFromChunks
NumChunks(text) == (text + tokenLimit - 1) \div tokenLimit

\* analyzeUrlContent with the minimum-content threshold at 50
analyzeUrlContentLowThreshold(text, g) ==
    IF text = NoText \/ text < 50
    THEN [threw |-> FALSE, calls |-> 0, result |-> Fallback]
    ELSE IF g.fault # "none"
    THEN [threw |-> TRUE, calls |-> 1, result |-> NoAnalysis]
    ELSE [threw |-> FALSE,
          calls |-> IF text <= characterThreshold THEN 1 ELSE NumChunks(text) + 3,
          result |-> Parsed(g)]

\* analyzeUrlContent after the scrape: whether it throws, how many calls to
\* the capability it issues, and what it returns
analyzeUrlContent(text, g) ==
    IF text = NoText \/ text < MinContentLength
    THEN [threw |-> FALSE, calls |-> 0, result |-> Fallback]
    ELSE IF g.fault # "none"
    THEN [threw |-> TRUE, calls |-> 1, result |-> NoAnalysis]
    ELSE [threw |-> FALSE,
          calls |-> IF text <= characterThreshold THEN 1 ELSE NumChunks(text) + 3,
          result |-> Parsed(g)]

\* JavaScript property read: undefined when the object has no such key
Prop(obj, key) == IF key \in DOMAIN obj THEN obj[key] ELSE Undefined

\* A String path that is unset reads back as its schema default, null
Hydrate(v) == IF v = Undefined THEN Null ELSE v

\* ------------------------------------------------------------------------
\* Initial state: empty repository, cold cache, empty queue
\* ------------------------------------------------------------------------
IdleReq ==
    [pc |-> "idle", web_id |-> "", linkId |-> 0, doc |-> linkSchema,
     result |-> NoResult,
     repoWrites |-> 0, cacheWrites |-> 0]

\* error is what the try block of the processor threw: "none", "Link not
\* found", the capability's "malformed" answer or "error", or "save" when
\* link.save() found no document
NoJob ==
    [state |-> "none", linkId |-> 0, attemptsMade |-> 0, pc |-> "-",
     doc |-> linkSchema, analysisResult |-> NoAnalysis, threw |-> FALSE,
     text |-> NoText, calls |-> 0, error |-> "none"]

IdleEditor == [pc |-> "idle", linkId |-> 0, newLongUrl |-> "", doc |-> linkSchema]

\* No run of the long-text path: text length, textChunks.length,
\* chunkSummaries.length, the calls of generateContentWithRetry or
\* model.generateContent that have not returned, the pass of the retry loop
\* of the call in progress, the reduce calls started so far, the prompts sent
\* to the capability so far (model.generateContent), the seconds of the wait
\* of the retry loop in progress, how the last prompt sent was answered
IdlePipeline ==
    [pc |-> "idle", text |-> 0, chunks |-> 0, summaries |-> 0, inflight |-> {},
     tries |-> 0, reduceCalls |-> 0, sent |-> 0, delay |-> 0, answer |-> ""]

\* collectionSchema with its defaults; state "none" is an _id not yet created
collectionSchema ==
    [state |-> "none", isSystem |-> FALSE, systemCategory |-> Null, links |-> <<>>]

\* No call of a collection handler: the place of the call, its parameters
\* (linkId, collectionId or targetCollectionId, sourceCollectionId, linkIds,
\* collectionIds, deleteLinks) and the collection document it loaded. When
\* the call has ended the handler and its parameters stay until the next call
IdleCollOp ==
    [pc |-> "idle", handler |-> "", linkId |-> 0, collectionId |-> 0,
     sourceCollectionId |-> 0, linkIds |-> {}, collectionIds |-> {},
     deleteLinks |-> FALSE, collection |-> collectionSchema]

IdleFiler == [pc |-> "idle", linkId |-> 0, category |-> "", systemCollection |-> 0]

IdleDeleter == [pc |-> "idle", linkId |-> 0, shortId |-> ""]

IdleShortEditor ==
    [pc |-> "idle", linkId |-> 0, oldShortId |-> "", newShortId |-> "",
     oldLink |-> linkSchema]

Init ==
    /\ links = [l \in LinkIds |-> linkSchema]
    /\ cache = [c \in Codes |-> NoEntry]
    /\ req = [r \in Resolvers |-> IdleReq]
    /\ jobs = [j \in JobIds |-> NoJob]
    /\ editor = IdleEditor
    /\ preWrite = [c \in Codes |-> {}]
    /\ pipeline = IdlePipeline
    /\ colls = [c \in CollIds |-> collectionSchema]
    /\ linkColls = [l \in LinkIds |-> {}]
    /\ collOp = IdleCollOp
    /\ filer = [j \in JobIds |-> IdleFiler]
    /\ deleter = IdleDeleter
    /\ shortEditor = IdleShortEditor

\* ------------------------------------------------------------------------
\* handleRedirect
\* ------------------------------------------------------------------------
\* Step 4 and 5: the safety check on the link data, cached or loaded
SafetyGate(linkData) ==
    IF linkData.analysisStatus = "COMPLETED" /\ linkData.aiSafetyRating < SafetyThreshold
    THEN [kind |-> "Warning",
          destination |-> encodeURIComponent(linkData.longUrl),
          reason |-> encodeURIComponent(linkData.aiSafetyJustification)]
    ELSE [kind |-> "Direct", destination |-> linkData.longUrl, reason |-> ""]

NotFound == [kind |-> "NotFound", destination |-> "", reason |-> ""]

\* A handler that goes to the database whatever the cache holds
AfterGetIgnoringCache(c, cachedData) == [IdleReq EXCEPT !.pc = "find", !.web_id = c]

\* if (cachedData) ... else ...: the call after redisClient.get has returned
AfterGet(c, cachedData) ==
    IF cachedData.present
    THEN [IdleReq EXCEPT !.pc = "inc", !.web_id = c, !.result = SafetyGate(cachedData)]
    ELSE [IdleReq EXCEPT !.pc = "find", !.web_id = c]

\* redisClient.get(cacheKey). On a hit the response is sent at once and the
\* $inc of viewerCount is left running; on a miss the handler goes on to the
\* database. The codes requested are those of links created so far and
\* UnknownCode: a request for a code a moment before its link is created
\* reads the same empty cache key as one made right after.
Get(r, c) ==
    /\ req[r].pc = "idle"
    /\ c \in {UnknownCode} \cup
             {links[l].shortId : l \in {k \in LinkIds : links[k].state # "none"}}
    /\ \A k \in Resolvers : k < r => req[k].pc # "idle"
    /\ req' = [req EXCEPT ![r] = AfterGet(c, cache[c])]
    /\ UNCHANGED <<links, cache, jobs, editor, preWrite, pipeline, collVars, lifeVars>>

\* An update that matches the link and changes nothing
IncLost(link) == link

\* { $inc: { viewerCount: 1 } }, applied by the server to the stored document
Inc(link) == [link EXCEPT !.viewerCount = @ + 1]

\* Link.updateOne({ shortId }, { $inc: { viewerCount: 1 } }).exec() lands
LazyInc(r) ==
    /\ req[r].pc = "inc"
    /\ LET l == FindByShortId(links, req[r].web_id) IN
         /\ links' = IF l = 0 THEN links
                     ELSE [links EXCEPT ![l] = Inc(@)]
         /\ req' = [req EXCEPT ![r].pc = "done",
                               ![r].repoWrites = @ + (IF l = 0 THEN 0 ELSE 1)]
    /\ UNCHANGED <<cache, jobs, editor, preWrite, pipeline, collVars, lifeVars>>

\* Link.findOne({ shortId }) without the check for a missing link
FindOutcomeNoCheck(r, l) ==
    IF l = 0
    THEN [req[r] EXCEPT !.pc = "set", !.doc = linkSchema]
    ELSE [req[r] EXCEPT !.pc = "save", !.linkId = l, !.doc = links[l]]

\* What Link.findOne({ shortId }) leads to: 404, or on to the save
FindOutcome(r, l) ==
    IF l = 0
    THEN [req[r] EXCEPT !.pc = "done", !.result = NotFound]
    ELSE [req[r] EXCEPT !.pc = "save", !.linkId = l, !.doc = links[l]]

Find(r) ==
    /\ req[r].pc = "find"
    /\ req' = [req EXCEPT ![r] = FindOutcome(r, FindByShortId(links, req[r].web_id))]
    /\ UNCHANGED <<links, cache, jobs, editor, preWrite, pipeline, collVars, lifeVars>>

\* The response of the error middleware when the handler throws
ServerError == [kind |-> "Error", destination |-> "", reason |-> ""]

\* link.viewerCount += 1; await link.save(): the new count is $set; save()
\* throws when the document is no longer in the collection
SaveCount(r) ==
    /\ req[r].pc = "save"
    /\ LET l == req[r].linkId
           doc == [req[r].doc EXCEPT !.viewerCount = @ + 1] IN
         IF Live(l)
         THEN /\ links' = [links EXCEPT ![l] = SaveModified(links[l], req[r].doc, doc)]
              /\ req' = [req EXCEPT ![r].pc = "set", ![r].doc = doc,
                                    ![r].repoWrites = @ + 1]
         ELSE /\ links' = links
              /\ req' = [req EXCEPT ![r].pc = "done", ![r].doc = linkSchema,
                                    ![r].result = ServerError]
    /\ UNCHANGED <<cache, jobs, editor, preWrite, pipeline, collVars, lifeVars>>

\* redisClient.set(cacheKey, JSON.stringify(linkData), "EX", 3600), then the
\* safety check and the response
SetCache(r) ==
    /\ req[r].pc = "set"
    /\ cache' = [cache EXCEPT ![req[r].web_id] = toObject(req[r].doc)]
    /\ preWrite' = [preWrite EXCEPT ![req[r].web_id] = {}]
    /\ req' = [req EXCEPT ![r].pc = "done",
                          ![r].result = SafetyGate(toObject(req[r].doc)),
                          ![r].cacheWrites = @ + 1,
                          ![r].doc = linkSchema]
    /\ UNCHANGED <<links, jobs, editor, pipeline, collVars, lifeVars>>

\* An entry that never expires
ExpireNever(c) ==
    /\ cache[c].present
    /\ UNCHANGED vars

\* The entry's TTL of 3600 s runs out
Expire(c) ==
    /\ cache[c].present
    /\ cache' = [cache EXCEPT ![c] = NoEntry]
    /\ preWrite' = [preWrite EXCEPT ![c] = {}]
    /\ UNCHANGED <<links, req, jobs, editor, pipeline, collVars, lifeVars>>

\* ------------------------------------------------------------------------
\* addurl and editLongUrl
\* ------------------------------------------------------------------------
FreeJobs == {j \in JobIds : jobs[j].state = "none"}
NextJob == CHOOSE j \in FreeJobs : \A k \in FreeJobs : j <= k

\* analysisQueue.add("analyze-link", { linkId })
Enqueue(jb, l) ==
    [jb EXCEPT ![NextJob] = [NoJob EXCEPT !.state = "waiting", !.linkId = l]]

\* newLink.save() of a link with a short code no link has and a destination
\* the owner has not shortened yet, then analysisQueue.add
addurl(l, c, u) ==
    /\ links[l].state = "none"
    /\ \A k \in LinkIds : k < l => links[k].state # "none"
    /\ l <= Len(CodeSeq) /\ c = CodeSeq[l] /\ u = UrlSeq[l]
    /\ FindByShortId(links, c) = 0
    /\ \A k \in LinkIds : links[k].state = "live" => links[k].longUrl # u
    /\ Cardinality(FreeJobs) > (IF editor.pc = "idle" THEN 0 ELSE 1)
    /\ links' = [links EXCEPT ![l] =
                   [linkSchema EXCEPT !.state = "live", !.shortId = c, !.longUrl = u]]
    /\ jobs' = Enqueue(jobs, l)
    /\ UNCHANGED <<cache, req, editor, preWrite, pipeline, collVars, lifeVars>>

\* Link.findOne({ _id: linkId, owner: user_id })
editFind(l, u) ==
    /\ editor.pc = "idle"
    /\ Live(l)
    /\ u # links[l].longUrl
    /\ FreeJobs # {}
    /\ editor' = [pc |-> "save", linkId |-> l, newLongUrl |-> u,
                  doc |-> Loaded(links[l], {"state", "shortId", "longUrl", "analysisStatus"})]
    /\ UNCHANGED <<links, cache, req, jobs, preWrite, pipeline, collVars, lifeVars>>

\* link.longUrl = newLongUrl; link.analysisStatus = "PENDING"; link.save()
editSave ==
    /\ editor.pc = "save"
    /\ LET l == editor.linkId
           doc == [editor.doc EXCEPT !.longUrl = editor.newLongUrl,
                                     !.analysisStatus = "PENDING"] IN
         /\ links' = [links EXCEPT ![l] = SaveModified(links[l], editor.doc, doc)]
         /\ editor' = [editor EXCEPT !.pc = "del", !.doc = doc]
    /\ UNCHANGED <<cache, req, jobs, preWrite, pipeline, collVars, lifeVars>>

\* redisClient.del(`link:${link.shortId}`), then
\* analysisQueue.add("analyze-link", { linkId: link._id })
editDel ==
    /\ editor.pc = "del"
    /\ cache' = [cache EXCEPT ![editor.doc.shortId] = NoEntry]
    /\ preWrite' = [preWrite EXCEPT ![editor.doc.shortId] = {}]
    /\ jobs' = Enqueue(jobs, editor.linkId)
    /\ editor' = IdleEditor
    /\ UNCHANGED <<links, req, pipeline, collVars, lifeVars>>

\* ------------------------------------------------------------------------
\* The link-analysis queue and the worker's processor
\* ------------------------------------------------------------------------
AnalysisPaths ==
    {"state", "shortId", "longUrl", "aiSafetyRating", "aiSafetyJustification",
     "aiClassification", "analysisStatus"}

\* One of the workers running (each takes one job at a time) takes the oldest
\* waiting job and its processor starts:
\* Link.findById(linkId); if (!link) throw new Error("Link not found")
Load(j, workers) ==
    /\ jobs[j].state = "waiting"
    /\ \A k \in JobIds : k < j => jobs[k].state # "waiting"
    /\ Cardinality({k \in JobIds : jobs[k].state = "active"}) < workers
    /\ jobs' = [jobs EXCEPT ![j] =
                  IF Live(jobs[j].linkId)
                  THEN [@ EXCEPT !.state = "active", !.attemptsMade = @ + 1,
                                 !.pc = "analyze", !.threw = FALSE,
                                 !.doc = Loaded(links[jobs[j].linkId], AnalysisPaths)]
                  ELSE [@ EXCEPT !.state = "active", !.attemptsMade = @ + 1,
                                 !.pc = "catch", !.threw = TRUE,
                                 !.error = "Link not found"]]
    /\ UNCHANGED <<links, cache, req, editor, preWrite, pipeline, collVars, lifeVars>>

\* analyzeUrlContent(link.longUrl): the scrape yields some text, the
\* capability answers in some way
Analyze(j) ==
    /\ jobs[j].state = "active" /\ jobs[j].pc = "analyze"
    /\ \E text \in TextSamples, g \in Capability :
         LET out == analyzeUrlContent(text, g) IN
           jobs' = [jobs EXCEPT ![j].pc = IF out.threw THEN "catch" ELSE "save",
                                ![j].threw = out.threw,
                                ![j].error = IF out.threw THEN g.fault ELSE "none",
                                ![j].analysisResult = out.result,
                                ![j].text = text,
                                ![j].calls = out.calls]
    /\ UNCHANGED <<links, cache, req, editor, preWrite, pipeline, collVars, lifeVars>>

\* The assignments without the one of analysisStatus
AssignNoStatus(doc, analysisResult) ==
    [doc EXCEPT
        !.aiSafetyRating = analysisResult.safety.safety_rating,
        !.aiSafetyJustification = Hydrate(Prop(analysisResult.safety, "explanation")),
        !.aiClassification =
            [category |-> analysisResult.classification.category,
             confidence |-> analysisResult.classification.confidence]]

\* The assignments of the analysis result to the loaded document
Assign(doc, analysisResult) ==
    [doc EXCEPT
        !.aiSafetyRating = analysisResult.safety.safety_rating,
        !.aiSafetyJustification = Hydrate(Prop(analysisResult.safety, "explanation")),
        !.aiClassification =
            [category |-> analysisResult.classification.category,
             confidence |-> analysisResult.classification.confidence],
        !.analysisStatus = "COMPLETED"]

\* await link.save(); it throws when the document is no longer in the
\* collection
Persist(j) ==
    /\ jobs[j].state = "active" /\ jobs[j].pc = "save"
    /\ LET l == jobs[j].linkId
           doc == Assign(jobs[j].doc, jobs[j].analysisResult) IN
         IF Live(l)
         THEN /\ links' = [links EXCEPT ![l] = SaveModified(links[l], jobs[j].doc, doc)]
              /\ jobs' = [jobs EXCEPT ![j].pc = "assign", ![j].doc = linkSchema,
                                      ![j].analysisResult = NoAnalysis,
                                      ![j].text = NoText, ![j].calls = 0]
              /\ filer' = [filer EXCEPT ![j] =
                             [pc |-> "find", linkId |-> l,
                              category |-> jobs[j].analysisResult.classification.category,
                              systemCollection |-> 0]]
              /\ preWrite' = [c \in Codes |->
                                IF c = links[l].shortId /\ cache[c].present
                                THEN preWrite[c] \cup {j} ELSE preWrite[c]]
         ELSE /\ links' = links
              /\ jobs' = [jobs EXCEPT ![j].pc = "catch", ![j].threw = TRUE,
                                      ![j].error = "save",
                                      ![j].analysisResult = NoAnalysis]
              /\ filer' = filer
              /\ preWrite' = preWrite
    /\ UNCHANGED <<cache, req, editor, pipeline, colls, linkColls, collOp, lifeVars>>

LiveColl(c) == colls[c].state = "live"

\* A test that finds no id in any array
includesNever(arr, x) == FALSE

\* Array.prototype.includes on an array of ids
includes(arr, x) == \E i \in 1..Len(arr) : arr[i] = x

\* getSystemCollectionByCategory: Collection.findOne({ owner, isSystem: true,
\* systemCategory: category }), the _id or 0
SystemCollection(category) ==
    IF \E c \in CollIds : LiveColl(c) /\ colls[c].isSystem /\ colls[c].systemCategory = category
    THEN CHOOSE c \in CollIds :
             LiveColl(c) /\ colls[c].isSystem /\ colls[c].systemCategory = category
    ELSE 0

\* A processor whose auto-filing failure reaches the outer catch block
FilingRethrown(job, threw) ==
    IF threw THEN [job EXCEPT !.pc = "catch", !.threw = TRUE, !.error = "filing"]
    ELSE [job EXCEPT !.pc = "return"]

\* try { await assignLinkToSystemCollection(...) } catch (error) {
\* console.error(...) }, then the same around addLinkTagsToUser, a name the
\* module does not import: its ReferenceError is logged as well and the
\* processor returns; error keeps what the first catch block logged
FilingDone(job, threw) ==
    [job EXCEPT !.pc = "return", !.error = IF threw THEN "filing" ELSE @]

\* assignLinkToSystemCollection(link.owner, link._id,
\* analysisResult.classification) looks for the system collection of the
\* category and goes on when there is one whose array does not hold the link
fileFind(j) ==
    /\ jobs[j].state = "active" /\ jobs[j].pc = "assign" /\ filer[j].pc = "find"
    /\ LET sc == SystemCollection(filer[j].category) IN
         IF sc # 0 /\ ~includes(colls[sc].links, filer[j].linkId)
         THEN /\ filer' = [filer EXCEPT ![j].pc = "save", ![j].systemCollection = sc]
              /\ jobs' = jobs
         ELSE /\ filer' = [filer EXCEPT ![j] = IdleFiler]
              /\ jobs' = [jobs EXCEPT ![j] = FilingDone(@, FALSE)]
    /\ UNCHANGED <<links, cache, req, editor, preWrite, pipeline, colls, linkColls,
                   collOp, lifeVars>>

\* systemCollection.links.push(linkId); await systemCollection.save(): a
\* $push on the stored array, which throws when the collection is gone
fileSave(j) ==
    /\ jobs[j].state = "active" /\ jobs[j].pc = "assign" /\ filer[j].pc = "save"
    /\ LET sc == filer[j].systemCollection IN
         /\ colls' = IF LiveColl(sc)
                     THEN [colls EXCEPT ![sc].links = Append(@, filer[j].linkId)]
                     ELSE colls
         /\ jobs' = [jobs EXCEPT ![j] = FilingDone(@, ~LiveColl(sc))]
    /\ filer' = [filer EXCEPT ![j] = IdleFiler]
    /\ UNCHANGED <<links, cache, req, editor, preWrite, pipeline, linkColls, collOp,
                   lifeVars>>

\* A catch block that only logs
MarkFailedSkipped(link) == link

\* A catch block that puts the link back to PENDING for the next attempt
MarkPending(link) == [link EXCEPT !.analysisStatus = "PENDING"]

\* The update of the catch block
MarkFailed(link) == [link EXCEPT !.analysisStatus = "FAILED"]

\* catch (error): Link.findByIdAndUpdate(linkId, { analysisStatus: "FAILED" });
\* the error is logged and not thrown again
Catch(j) ==
    /\ jobs[j].state = "active" /\ jobs[j].pc = "catch"
    /\ LET l == jobs[j].linkId IN
         links' = IF Live(l) THEN [links EXCEPT ![l] = MarkFailed(links[l])] ELSE links
    /\ jobs' = [jobs EXCEPT ![j].pc = "return", ![j].doc = linkSchema,
                            ![j].text = NoText, ![j].calls = 0]
    /\ UNCHANGED <<cache, req, editor, preWrite, pipeline, collVars, lifeVars>>

\* Whether the processor's promise rejects: the catch block swallows the error
ProcessorThrew(job) == FALSE

\* The queue settles the job: completed when the processor returned; when it
\* threw, waiting again while attempts remain, failed after the last one
Settle(j) ==
    /\ jobs[j].state = "active" /\ jobs[j].pc = "return"
    /\ jobs' = [jobs EXCEPT ![j].pc = "-", ![j].doc = linkSchema,
                  ![j].analysisResult = NoAnalysis, ![j].threw = FALSE,
                  ![j].text = NoText, ![j].calls = 0, ![j].error = "none",
                  ![j].state = IF ~ProcessorThrew(jobs[j]) THEN "completed"
                               ELSE IF jobs[j].attemptsMade < attempts THEN "waiting"
                               ELSE "failed"]
    /\ UNCHANGED <<links, cache, req, editor, preWrite, pipeline, collVars, lifeVars>>

\* ------------------------------------------------------------------------
\* Specification
\* ------------------------------------------------------------------------
Next ==
    \/ \E r \in Resolvers, c \in Codes : Get(r, c)
    \/ \E r \in Resolvers : LazyInc(r)
    \/ \E r \in Resolvers : Find(r)
    \/ \E r \in Resolvers : SaveCount(r)
    \/ \E r \in Resolvers : SetCache(r)
    \/ \E c \in Codes : Expire(c)
    \/ \E l \in LinkIds, c \in Codes, u \in Urls : addurl(l, c, u)
    \/ \E l \in LinkIds, u \in Urls : editFind(l, u)
    \/ editSave
    \/ editDel
    \/ \E j \in JobIds : Load(j, MaxWorkers)
    \/ \E j \in JobIds : Analyze(j)
    \/ \E j \in JobIds : Persist(j)
    \/ \E j \in JobIds : fileFind(j)
    \/ \E j \in JobIds : Catch(j)
    \/ \E j \in JobIds : Settle(j)

Spec == Init /\ [][Next]_vars

\* ------------------------------------------------------------------------
\* Properties
\* ------------------------------------------------------------------------
\* The step in which call r sends its response
Responds(r) == req[r].result = NoResult /\ req'[r].result # NoResult

\* No link was ever created with short code c
NeverCreated(ls, c) == \A l \in LinkIds : ls[l].state # "none" => ls[l].shortId # c

\* A write of link l's destination, status or rating is under way: the
\* handler that made it has not finished yet
WriterBusy(l) ==
    \/ editor.pc = "del" /\ editor.linkId = l
    \/ \E j \in JobIds : jobs[j].linkId = l /\ jobs[j].pc \in {"assign", "return"}

\* Call r responds for code c from a settled state: a call served from the
\* repository loaded what the repository still holds, and no write of the
\* link is under way
Settled(r, c) ==
    /\ req[r].pc = "set" => toObject(req[r].doc) = RepoView(links, c)
    /\ ~WriterBusy(FindByShortId(links, c))

Warning(v) ==
    [kind |-> "Warning", destination |-> encodeURIComponent(v.longUrl),
     reason |-> encodeURIComponent(v.aiSafetyJustification)]

Direct(u) == [kind |-> "Direct", destination |-> u, reason |-> ""]

\* C1: whenever a call of handleRedirect responds while the repository holds
\* its link as COMPLETED with a safety rating below 3, the response is the
\* Warning with the stored destination and justification, from the cache as
\* well as from the repository.
C1_UnsafeAlwaysWarned ==
    [][\A r \in Resolvers :
         LET c == req'[r].web_id
             v == RepoView(links, c) IN
           (/\ Responds(r)
            /\ v.present /\ v.analysisStatus = "COMPLETED"
            /\ v.aiSafetyRating < 3
            /\ Settled(r, c))
           => req'[r].result = Warning(v)]_vars

\* C2: whenever a call of handleRedirect responds while the repository holds
\* its link as COMPLETED with a safety rating of 3 or more, the response is
\* the direct redirect to the destination the repository holds.
C2_SafeRedirectsToStored ==
    [][\A r \in Resolvers :
         LET c == req'[r].web_id
             v == RepoView(links, c) IN
           (/\ Responds(r)
            /\ v.present /\ v.analysisStatus = "COMPLETED"
            /\ v.aiSafetyRating >= 3
            /\ Settled(r, c))
           => req'[r].result = Direct(v.longUrl)]_vars

\* C3: a call of handleRedirect for a short code that no link ever had writes
\* neither the repository nor the cache in any of its steps, and the response
\* it sends is NotFound.
C3_UnknownCodeNotFound ==
    [][\A r \in Resolvers :
         (req'[r] # req[r] /\ NeverCreated(links', req'[r].web_id))
         => /\ links' = links
            /\ cache' = cache
            /\ req'[r].repoWrites = 0 /\ req'[r].cacheWrites = 0
            /\ Responds(r) => req'[r].result = NotFound
            /\ req'[r].pc = "done" => req'[r].result = NotFound]_vars

C3_Witness ==
    \E r \in Resolvers :
        /\ req[r].pc = "done" /\ req[r].result = NotFound
        /\ NeverCreated(links, req[r].web_id)
        /\ req[r].repoWrites = 0 /\ req[r].cacheWrites = 0
        /\ \E l \in LinkIds : Live(l)

\* The calls that were answered with a redirect for the code of link l
Served(l) ==
    {r \in Resolvers : /\ req[r].pc = "done"
                       /\ req[r].web_id = links[l].shortId
                       /\ req[r].result.kind \in {"Direct", "Warning"}}

\* C4: once every call of handleRedirect has finished, the viewerCount of a
\* link equals the number of calls made for its code: no increment is lost,
\* however the calls interleaved.
C4_NoLostIncrement ==
    (\A r \in Resolvers : req[r].pc \in {"idle", "done"})
    => \A l \in LinkIds : Live(l) => links[l].viewerCount = Cardinality(Served(l))

\* C5: when no write of a link is under way, so that the next call of
\* handleRedirect starts after every write has finished, the cache holds no
\* entry for its code or an entry with the values the repository holds.
C5_CacheFreshAfterMutation ==
    \A l \in LinkIds :
        (Live(l) /\ ~WriterBusy(l) /\ cache[links[l].shortId].present)
        => cache[links[l].shortId] = toObject(links[l])

\* C6: when a job that wrote COMPLETED has finished, the cache holds no entry
\* for the link's code that was written before that write.
C6_WorkerInvalidatesCache ==
    \A j \in JobIds, c \in Codes : jobs[j].state = "completed" => j \notin preWrite[c]

\* C7: no job is attempted more than 3 times; the attempt of a job whose
\* processing threw leaves the link's status FAILED; a job that the queue has
\* settled as completed or failed is never delivered again.
C7_FailedAfterBoundedAttempts ==
    /\ [](\A j \in JobIds : jobs[j].attemptsMade <= 3)
    /\ [][\A j \in JobIds :
            /\ (jobs[j].pc = "catch" /\ jobs'[j].pc = "return" /\ Live(jobs[j].linkId))
               => links'[jobs[j].linkId].analysisStatus = "FAILED"
            /\ jobs[j].state \in {"completed", "failed"} => jobs'[j] = jobs[j]]_vars

C7_Witness ==
    \E j \in JobIds :
        /\ jobs[j].state \in {"completed", "failed"}
        /\ jobs[j].attemptsMade >= 1
        /\ links[jobs[j].linkId].analysisStatus = "FAILED"

\* C8: when analyzeUrlContent threw in an attempt, the queue sees the job
\* fail: it is delivered again while attempts remain and failed after the
\* last one, never completed.
C8_ThrowReachesQueue ==
    [][\A j \in JobIds :
         (jobs[j].pc = "return" /\ jobs[j].threw /\ jobs'[j].pc = "-")
         => jobs'[j].state = IF jobs[j].attemptsMade < attempts THEN "waiting"
                             ELSE "failed"]_vars

\* Link l was edited: more than the job of its creation exists for it, or a
\* call of editLongUrl for it is in progress
Edited(l) ==
    \/ Cardinality({j \in JobIds : jobs[j].state # "none" /\ jobs[j].linkId = l}) > 1
    \/ editor.pc # "idle" /\ editor.linkId = l

\* C9: a link is created PENDING with a job waiting for it; when the scrape
\* returns no text for that job, the link not having been edited, the
\* analysis result is the fallback and the worker's save leaves the link
\* COMPLETED with rating 3 and category "Other"; a call of handleRedirect for
\* such a link is answered by the direct redirect to its destination.
C9_EndToEndFallback ==
    /\ [][/\ \A l \in LinkIds :
               (links[l].state = "none" /\ links'[l].state = "live")
               => /\ links'[l].analysisStatus = "PENDING"
                  /\ \E j \in JobIds : jobs'[j].state = "waiting" /\ jobs'[j].linkId = l
          /\ \A j \in JobIds :
               (/\ jobs[j].pc = "save" /\ jobs[j].text = NoText
                /\ jobs'[j].pc = "assign" /\ ~Edited(jobs[j].linkId))
               => /\ links'[jobs[j].linkId].analysisStatus = "COMPLETED"
                  /\ links'[jobs[j].linkId].aiSafetyRating = 3
                  /\ links'[jobs[j].linkId].aiClassification.category = "Other"]_vars
    /\ [][\A l \in LinkIds, r \in Resolvers :
            (/\ Live(l) /\ ~Edited(l)
             /\ links[l].analysisStatus = "COMPLETED"
             /\ links[l].aiSafetyRating = 3 /\ links[l].aiClassification.category = "Other"
             /\ Responds(r) /\ req'[r].web_id = links[l].shortId)
            => req'[r].result = Direct(links[l].longUrl)]_vars

C9_Witness ==
    \E l \in LinkIds, r \in Resolvers :
        /\ Live(l) /\ ~Edited(l)
        /\ links[l].analysisStatus = "COMPLETED"
        /\ links[l].aiSafetyRating = 3 /\ links[l].aiClassification.category = "Other"
        /\ \E j \in JobIds : jobs[j].state = "completed" /\ jobs[j].linkId = l
        /\ req[r].pc = "done" /\ req[r].web_id = links[l].shortId
        /\ req[r].result = Direct(links[l].longUrl)
        /\ req[r].cacheWrites = 1
        /\ cache[links[l].shortId].present
        /\ cache[links[l].shortId].analysisStatus = "COMPLETED"
        /\ \A q \in Resolvers : q # r => req[q].pc = "idle"

\* C10: when the scraped text is absent or shorter than 100 characters,
\* analyzeUrlContent issues no call to the capability, does not throw, and
\* returns safety rating 3, category "Other" and no tags.
C10_FallbackWithoutCalls ==
    [][\A j \in JobIds :
         (/\ jobs[j].pc = "analyze" /\ jobs'[j].pc # "analyze"
          /\ (jobs'[j].text = NoText \/ jobs'[j].text < 100))
         => /\ jobs'[j].pc = "save"
            /\ jobs'[j].calls = 0
            /\ jobs'[j].analysisResult.safety.safety_rating = 3
            /\ jobs'[j].analysisResult.classification.category = "Other"
            /\ jobs'[j].analysisResult.tags = {}]_vars

C10_Witness ==
    \E j \in JobIds :
        /\ jobs[j].pc = "save" /\ jobs[j].text = 99 /\ jobs[j].calls = 0
        /\ jobs[j].analysisResult.safety.safety_rating = 3
        /\ jobs[j].analysisResult.classification.category = "Other"
        /\ jobs[j].analysisResult.tags = {}

\* ------------------------------------------------------------------------
\* The long-text path of analyzeUrlContent, call by call
\* ------------------------------------------------------------------------
\* Lengths of scraped text above characterThreshold: one for each number of
\* chunks up to MaxChunks
LongTexts ==
    {characterThreshold + 1} \cup {k * tokenLimit + 1 : k \in 1..(MaxChunks - 1)}

\* How a call to the capability ends: a response, a response that is not
\* JSON, a rate-limit error (status 429) without and with RetryInfo among its
\* errorDetails, another error
Answers == {"ok", "malformed", "rate", "rate12", "error"}

\* error.status === 429
RateLimited(a) == a \in {"rate", "rate12"}

\* retryDelay of the RetryInfo of the error, as characters; none without
errorDetails(a) == IF a = "rate12" THEN <<"1", "2", "s">> ELSE <<>>

\* String.replace(ch, ""): the string without the first ch
RECURSIVE replace(_, _)
replace(str, ch) ==
    IF str = <<>> THEN <<>>
    ELSE IF Head(str) = ch THEN Tail(str)
    ELSE <<Head(str)>> \o replace(Tail(str), ch)

DigitChars == <<"0", "1", "2", "3", "4", "5", "6", "7", "8", "9">>
IsDigit(ch) == \E d \in 1..10 : DigitChars[d] = ch
DigitValue(ch) == (CHOOSE d \in 1..10 : DigitChars[d] = ch) - 1

\* parseInt(str, 10) of a string that starts with a digit: the number its
\* leading digits spell, acc being the number spelt so far
RECURSIVE parseInt(_, _)
parseInt(str, acc) ==
    IF str = <<>> \/ ~IsDigit(Head(str)) THEN acc
    ELSE parseInt(Tail(str), 10 * acc + DigitValue(Head(str)))

\* A loop that waits 30 seconds whatever the error says
delaySecondsFixed(a) == 30

\* delaySeconds: the delay the error suggests, 30 when it suggests none
delaySeconds(a) ==
    IF errorDetails(a) # <<>> THEN parseInt(replace(errorDetails(a), "s"), 0) ELSE 30

Call(kind, k) == [kind |-> kind, k |-> k]

\* The calls of the summarization (map and reduce) that have not returned
Summarizing(p) == {c \in p.inflight : c.kind \in {"chunk", "reduce"}}

\* A loop that starts the calls of all the chunks left at once
ChunkCallsAllAtOnce(p) == {Call("chunk", k) : k \in (p.summaries + 1)..p.chunks}

\* for (const chunk of textChunks): one pass starts the call of the next chunk
ChunkCallsStarted(p) == {Call("chunk", p.summaries + 1)}

\* text.length > characterThreshold: getSummarizationFromChunks splits the text
startPipeline(text) ==
    /\ pipeline.pc \in {"idle", "done", "threw"}
    /\ text > characterThreshold
    /\ pipeline' = [IdlePipeline EXCEPT !.pc = "loop", !.text = text,
                                        !.chunks = NumChunks(text)]
    /\ UNCHANGED <<links, cache, req, jobs, editor, preWrite, collVars, lifeVars>>

\* await generateContentWithRetry(model, prompt) for the next chunk
StartChunk ==
    /\ pipeline.pc = "loop" /\ pipeline.summaries < pipeline.chunks
    /\ pipeline' = [pipeline EXCEPT
                      !.pc = "await", !.tries = 1,
                      !.sent = @ + Cardinality(ChunkCallsStarted(pipeline)),
                      !.inflight = @ \cup ChunkCallsStarted(pipeline)]
    /\ UNCHANGED <<links, cache, req, jobs, editor, preWrite, collVars, lifeVars>>

\* await new Promise((resolve) => setTimeout(resolve, 1000))
Pause ==
    /\ pipeline.pc = "pause"
    /\ pipeline' = [pipeline EXCEPT !.pc = "loop"]
    /\ UNCHANGED <<links, cache, req, jobs, editor, preWrite, collVars, lifeVars>>

\* After the loop: await generateContentWithRetry(model, finalSummaryPrompt)
StartReduce ==
    /\ pipeline.pc = "loop" /\ pipeline.summaries = pipeline.chunks
    /\ pipeline' = [pipeline EXCEPT
                      !.pc = "await", !.tries = 1,
                      !.inflight = @ \cup {Call("reduce", 0)},
                      !.sent = @ + 1, !.reduceCalls = @ + 1]
    /\ UNCHANGED <<links, cache, req, jobs, editor, preWrite, collVars, lifeVars>>

\* The pipeline after the prompt of call c has been answered with a.
\* generateContentWithRetry returns the response, waits after a rate-limit
\* error and throws any other error; the response of the reduce call is
\* parsed, and the safety and the classification call are then started
\* together (Promise.all of model.generateContent, without retry)
Returned(p, c, a) ==
    LET threw == [p EXCEPT !.pc = "threw", !.inflight = {}, !.tries = 0] IN
    IF c.kind \in {"chunk", "reduce"} /\ RateLimited(a)
    THEN [p EXCEPT !.pc = "wait", !.delay = delaySeconds(a)]
    ELSE IF RateLimited(a) \/ a = "error" THEN threw
    ELSE IF c.kind = "chunk"
    THEN [p EXCEPT !.summaries = @ + 1, !.inflight = @ \ {c}, !.tries = 0,
                   !.pc = IF Summarizing(p) = {c} THEN "pause" ELSE "await"]
    ELSE IF a = "malformed" THEN threw
    ELSE IF c.kind = "reduce"
    THEN [p EXCEPT !.pc = "all", !.tries = 0, !.sent = @ + 2,
                   !.inflight = {Call("safety", 0), Call("classification", 0)}]
    ELSE [p EXCEPT !.inflight = @ \ {c},
                   !.pc = IF p.inflight = {c} THEN "done" ELSE "all"]

\* A prompt sent to the capability is answered
Return(c, a) ==
    /\ pipeline.pc \in {"await", "all"}
    /\ c \in pipeline.inflight
    /\ pipeline' = [Returned(pipeline, c, a) EXCEPT !.answer = a]
    /\ UNCHANGED <<links, cache, req, jobs, editor, preWrite, collVars, lifeVars>>

\* await new Promise((resolve) => setTimeout(resolve, delaySeconds * 1000)),
\* then the next pass of the loop sends the prompt again, or the loop is over
\* and generateContentWithRetry throws
Wait ==
    /\ pipeline.pc = "wait"
    /\ pipeline' = IF pipeline.tries < maxRetries
                   THEN [pipeline EXCEPT !.pc = "await", !.delay = 0,
                                         !.tries = @ + 1, !.sent = @ + 1]
                   ELSE [pipeline EXCEPT !.pc = "threw", !.delay = 0,
                                         !.inflight = {}, !.tries = 0]
    /\ UNCHANGED <<links, cache, req, jobs, editor, preWrite, collVars, lifeVars>>

NextPipeline ==
    \/ \E text \in LongTexts : startPipeline(text)
    \/ StartChunk
    \/ Pause
    \/ StartReduce
    \/ \E c \in pipeline.inflight, a \in Answers : Return(c, a)
    \/ Wait

SpecPipeline == Init /\ [][NextPipeline]_vars

\* C11: on the long-text path at most one call of the summarization is in
\* progress at any time; the call of a chunk starts only when the calls of
\* all the chunks before it have returned, the reduce call starts only when
\* the calls of all the chunks have returned, and a run that goes on to the
\* safety and classification calls has started exactly one reduce call.
C11_SequentialChunksOneReduce ==
    /\ [](/\ Cardinality(Summarizing(pipeline)) <= 1
          /\ pipeline.reduceCalls <= 1
          /\ pipeline.pc \in {"all", "done"} => pipeline.reduceCalls = 1)
    /\ [][\A c \in pipeline'.inflight \ pipeline.inflight :
            /\ c.kind = "chunk"
               => c.k = pipeline.summaries + 1 /\ Summarizing(pipeline) = {}
            /\ c.kind = "reduce"
               => /\ pipeline.summaries = pipeline.chunks
                  /\ Summarizing(pipeline) = {}]_vars

C11_Witness ==
    /\ pipeline.pc = "done"
    /\ pipeline.chunks = 3 /\ pipeline.summaries = 3
    /\ pipeline.reduceCalls = 1

\* ------------------------------------------------------------------------
\* The life of a link: deleteUrl, editShortUrl, calls of handleRedirect
\* without end
\* ------------------------------------------------------------------------
\* The short codes a client can ask for
ClientCodes == {CodeSeq[i] : i \in 1..Len(CodeSeq)}

\* The connection of a finished call is closed and its slot serves the next
\* call, while the counters stay below MaxViews
Close(r) ==
    /\ req[r].pc = "done"
    /\ \A l \in LinkIds : links[l].viewerCount < MaxViews
    /\ req' = [req EXCEPT ![r] = IdleReq]
    /\ UNCHANGED <<links, cache, jobs, editor, preWrite, pipeline, collVars, lifeVars>>

\* deleteUrl: Link.findOne({ _id: linkId, owner: user_id })
delFind(l) ==
    /\ deleter.pc = "idle"
    /\ Live(l)
    /\ deleter' = [pc |-> "del", linkId |-> l, shortId |-> links[l].shortId]
    /\ UNCHANGED <<links, cache, req, jobs, editor, preWrite, pipeline, collVars,
                   shortEditor>>

\* redisClient.del(`link:${link.shortId}`)
delCache ==
    /\ deleter.pc = "del"
    /\ cache' = [cache EXCEPT ![deleter.shortId] = NoEntry]
    /\ preWrite' = [preWrite EXCEPT ![deleter.shortId] = {}]
    /\ deleter' = [deleter EXCEPT !.pc = "deleteOne"]
    /\ UNCHANGED <<links, req, jobs, editor, pipeline, collVars, shortEditor>>

\* What Link.deleteOne leaves of a document: nothing but the memory of the
\* short code it had last
Deleted(link) == [linkSchema EXCEPT !.state = "deleted", !.shortId = link.shortId]

\* Link.deleteOne({ _id: linkId }), then the response
delOne ==
    /\ deleter.pc = "deleteOne"
    /\ links' = [links EXCEPT ![deleter.linkId] =
                   IF Live(deleter.linkId) THEN Deleted(@) ELSE @]
    /\ linkColls' = [linkColls EXCEPT ![deleter.linkId] = {}]
    /\ deleter' = IdleDeleter
    /\ UNCHANGED <<cache, req, jobs, editor, preWrite, pipeline, colls, collOp, filer,
                   shortEditor>>

\* editShortUrl: Link.findOne({ shortId: oldShortId, owner: user_id })
shortFind(old, new) ==
    /\ shortEditor.pc = "idle"
    /\ old \in ClientCodes /\ new \in ClientCodes /\ old # new
    /\ FindByShortId(links, old) # 0
    /\ shortEditor' = [pc |-> "check", linkId |-> FindByShortId(links, old),
                       oldShortId |-> old, newShortId |-> new,
                       oldLink |-> links[FindByShortId(links, old)]]
    /\ UNCHANGED <<links, cache, req, jobs, editor, preWrite, pipeline, collVars,
                   deleter>>

\* Link.findOne({ shortId: newShortId }): 400 when the code is taken
shortCheck ==
    /\ shortEditor.pc = "check"
    /\ shortEditor' = IF FindByShortId(links, shortEditor.newShortId) # 0
                      THEN IdleShortEditor
                      ELSE [shortEditor EXCEPT !.pc = "del"]
    /\ UNCHANGED <<links, cache, req, jobs, editor, preWrite, pipeline, collVars,
                   deleter>>

\* redisClient.del(`link:${oldShortId}`)
shortDel ==
    /\ shortEditor.pc = "del"
    /\ cache' = [cache EXCEPT ![shortEditor.oldShortId] = NoEntry]
    /\ preWrite' = [preWrite EXCEPT ![shortEditor.oldShortId] = {}]
    /\ shortEditor' = [shortEditor EXCEPT !.pc = "save"]
    /\ UNCHANGED <<links, req, jobs, editor, pipeline, collVars, deleter>>

\* oldLink.shortId = newShortId
AssignShortId(doc, new) == [doc EXCEPT !.shortId = new]

\* await oldLink.save(): throws when the document is gone or when the unique
\* index on shortId finds the code taken
shortSave ==
    /\ shortEditor.pc = "save"
    /\ LET l == shortEditor.linkId
           doc == AssignShortId(shortEditor.oldLink, shortEditor.newShortId) IN
         IF Live(l) /\ FindByShortId(links, shortEditor.newShortId) \in {0, l}
         THEN /\ links' = [links EXCEPT ![l] =
                             SaveModified(links[l], shortEditor.oldLink, doc)]
              /\ shortEditor' = [shortEditor EXCEPT !.pc = "set", !.oldLink = doc]
         ELSE /\ links' = links
              /\ shortEditor' = IdleShortEditor
    /\ UNCHANGED <<cache, req, jobs, editor, preWrite, pipeline, collVars, deleter>>

\* redisClient.set(newCacheKey, JSON.stringify(oldLink.toObject()), "EX", 3600)
shortSet ==
    /\ shortEditor.pc = "set"
    /\ cache' = [cache EXCEPT ![shortEditor.newShortId] = toObject(shortEditor.oldLink)]
    /\ preWrite' = [preWrite EXCEPT ![shortEditor.newShortId] = {}]
    /\ shortEditor' = IdleShortEditor
    /\ UNCHANGED <<links, req, jobs, editor, pipeline, collVars, deleter>>

NextLinks ==
    \/ \E l \in LinkIds, c \in Codes, u \in Urls : addurl(l, c, u)
    \/ \E r \in Resolvers, c \in Codes : Get(r, c)
    \/ \E r \in Resolvers : LazyInc(r)
    \/ \E r \in Resolvers : Find(r)
    \/ \E r \in Resolvers : SaveCount(r)
    \/ \E r \in Resolvers : SetCache(r)
    \/ \E r \in Resolvers : Close(r)
    \/ \E c \in Codes : Expire(c)
    \/ \E l \in LinkIds : delFind(l)
    \/ delCache
    \/ delOne

\* Calls of handleRedirect without end, and deleteUrl
SpecLinks == Init /\ [][NextLinks]_vars

NextCodes ==
    \/ \E l \in LinkIds, c \in Codes, u \in Urls : addurl(l, c, u)
    \/ \E r \in Resolvers, c \in Codes : Get(r, c)
    \/ \E r \in Resolvers : LazyInc(r)
    \/ \E r \in Resolvers : Find(r)
    \/ \E r \in Resolvers : SaveCount(r)
    \/ \E r \in Resolvers : SetCache(r)
    \/ \E l \in LinkIds, u \in Urls : editFind(l, u)
    \/ editSave
    \/ editDel
    \/ \E old \in Codes, new \in Codes : shortFind(old, new)
    \/ shortCheck
    \/ shortDel
    \/ shortSave
    \/ shortSet

\* handleRedirect next to the handlers that edit a link: editLongUrl and
\* editShortUrl
SpecCodes == Init /\ [][NextCodes]_vars

NextWorker ==
    \/ \E l \in LinkIds, c \in Codes, u \in Urls : addurl(l, c, u)
    \/ \E l \in LinkIds, u \in Urls : editFind(l, u)
    \/ editSave
    \/ editDel
    \/ \E l \in LinkIds : delFind(l)
    \/ delCache
    \/ delOne
    \/ \E j \in JobIds : Load(j, MaxWorkers)
    \/ \E j \in JobIds : Analyze(j)
    \/ \E j \in JobIds : Persist(j)
    \/ \E j \in JobIds : fileFind(j)
    \/ \E j \in JobIds : Catch(j)
    \/ \E j \in JobIds : Settle(j)

\* The worker next to the handlers that edit and delete a link
SpecWorker == Init /\ [][NextWorker]_vars

\* addurl when analysisQueue.add rejects (the queue's Redis cannot be reached):
\* the link was saved before, the catch block answers 400 and nothing undoes
\* the save
addurlQueueDown(l, c, u) ==
    /\ links[l].state = "none"
    /\ \A k \in LinkIds : k < l => links[k].state # "none"
    /\ l <= Len(CodeSeq) /\ c = CodeSeq[l] /\ u = UrlSeq[l]
    /\ FindByShortId(links, c) = 0
    /\ \A k \in LinkIds : links[k].state = "live" => links[k].longUrl # u
    /\ links' = [links EXCEPT ![l] =
                   [linkSchema EXCEPT !.state = "live", !.shortId = c, !.longUrl = u]]
    /\ UNCHANGED <<cache, req, jobs, editor, preWrite, pipeline, collVars, lifeVars>>

\* The last steps of editLongUrl when analysisQueue.add rejects after
\* redisClient.del: the catch block answers 500, the link stays as saved
editDelQueueDown ==
    /\ editor.pc = "del"
    /\ cache' = [cache EXCEPT ![editor.doc.shortId] = NoEntry]
    /\ preWrite' = [preWrite EXCEPT ![editor.doc.shortId] = {}]
    /\ editor' = IdleEditor
    /\ UNCHANGED <<links, req, jobs, pipeline, collVars, lifeVars>>

NextOutage ==
    \/ NextWorker
    \/ \E l \in LinkIds, c \in Codes, u \in Urls : addurlQueueDown(l, c, u)
    \/ editDelQueueDown

\* The worker and the handlers of a link when the queue can fail to take a job
SpecOutage == Init /\ [][NextOutage]_vars

\* ------------------------------------------------------------------------
\* Collections: the handlers of collection.controller.js,
\* updateLinkCollections and the worker's auto-filing
\* ------------------------------------------------------------------------
coreVars == <<cache, req, jobs, editor, preWrite, pipeline, lifeVars>>

\* The links a client can name: those created so far
KnownLinks == {l \in LinkIds : links[l].state # "none"}

\* The ids of L in the order the client lists them: ascending
RECURSIVE Listed(_)
Listed(L) ==
    IF L = {} THEN <<>>
    ELSE LET x == CHOOSE y \in L : \A z \in L : y <= z IN <<x>> \o Listed(L \ {x})

\* $addToSet with $each: the ids the array does not hold are appended
AddToSetEach(arr, L) == arr \o Listed({x \in L : ~includes(arr, x)})

\* $pull with $in: every occurrence of an id of L is removed
PullIn(arr, L) == SelectSeq(arr, LAMBDA x : x \notin L)

\* createCollection: newCollection.save() of a collection with a new name
createCollection(c) ==
    /\ c \in UserCollIds /\ colls[c].state = "none"
    /\ \A k \in UserCollIds : k < c => colls[k].state # "none"
    /\ colls' = [colls EXCEPT ![c] = [collectionSchema EXCEPT !.state = "live"]]
    /\ UNCHANGED <<links, linkColls, collOp, filer, coreVars>>

\* createSystemCollections: Collection.insertMany of one collection for each
\* category, for a user who has none
createSystemCollections ==
    /\ \A c \in CollIds : ~colls[c].isSystem
    /\ colls' = [c \in CollIds |->
                   IF c > MaxColls
                   THEN [state |-> "live", isSystem |-> TRUE,
                         systemCategory |-> SYSTEM_CATEGORIES[c - MaxColls],
                         links |-> <<>>]
                   ELSE colls[c]]
    /\ UNCHANGED <<links, linkColls, collOp, filer, coreVars>>

\* The call has ended: its document is dropped
Ended(op) == [op EXCEPT !.pc = "idle", !.collection = collectionSchema]

\* updateLinkCollections: Link.findOneAndUpdate({ _id: linkId, owner: user_id },
\* { $set: { collections: collectionIds } }); 404 when there is no such link
ulcSet(l, S) ==
    /\ collOp.pc = "idle"
    /\ l \in KnownLinks
    /\ S \subseteq {c \in CollIds : LiveColl(c)}
    /\ IF Live(l)
       THEN /\ linkColls' = [linkColls EXCEPT ![l] = S]
            /\ collOp' = [IdleCollOp EXCEPT !.pc = "add",
                                            !.handler = "updateLinkCollections",
                                            !.linkId = l, !.collectionIds = S]
       ELSE /\ linkColls' = linkColls
            /\ collOp' = IdleCollOp
    /\ UNCHANGED <<links, colls, filer, coreVars>>

\* Collection.updateMany({ _id: { $in: collectionIds }, owner: user_id },
\* { $addToSet: { links: linkId } })
ulcAdd ==
    /\ collOp.pc = "add" /\ collOp.handler = "updateLinkCollections"
    /\ colls' = [c \in CollIds |->
                   IF LiveColl(c) /\ c \in collOp.collectionIds
                   THEN [colls[c] EXCEPT !.links = AddToSetEach(@, {collOp.linkId})]
                   ELSE colls[c]]
    /\ collOp' = [collOp EXCEPT !.pc = "pull"]
    /\ UNCHANGED <<links, linkColls, filer, coreVars>>

\* An update that leaves the other collections as they are
PullNothing(cs, S, l) == cs

\* Collection.updateMany({ _id: { $nin: collectionIds }, owner: user_id,
\* links: linkId }, { $pull: { links: linkId } })
PullFromOthers(cs, S, l) ==
    [c \in CollIds |->
       IF cs[c].state = "live" /\ c \notin S
       THEN [cs[c] EXCEPT !.links = PullIn(@, {l})]
       ELSE cs[c]]

\* The last update of updateLinkCollections, then the response
ulcPull ==
    /\ collOp.pc = "pull" /\ collOp.handler = "updateLinkCollections"
    /\ colls' = PullFromOthers(colls, collOp.collectionIds, collOp.linkId)
    /\ collOp' = Ended(collOp)
    /\ UNCHANGED <<links, linkColls, filer, coreVars>>

\* addLinksToCollection and bulkAddLinksToCollection (the same statements):
\* Collection.findOne({ _id: collectionId, owner: user_id }) and
\* Link.find({ _id: { $in: linkIds }, owner: user_id }); 404 or 400 when the
\* collection or a link is missing. Only the second read looks at the links
addFind(c, L) ==
    /\ collOp.pc = "idle"
    /\ LiveColl(c)
    /\ L # {} /\ L \subseteq KnownLinks
    /\ collOp' = IF \A l \in L : Live(l)
                 THEN [IdleCollOp EXCEPT !.pc = "addToSet",
                                         !.handler = "addLinksToCollection",
                                         !.collectionId = c, !.linkIds = L]
                 ELSE IdleCollOp
    /\ UNCHANGED <<links, colls, linkColls, filer, coreVars>>

\* Collection.findByIdAndUpdate(collectionId, { $addToSet: { links: { $each:
\* linkIds } } })
addToSet ==
    /\ collOp.pc = "addToSet" /\ collOp.handler = "addLinksToCollection"
    /\ colls' = [colls EXCEPT ![collOp.collectionId] =
                   IF @.state = "live" THEN [@ EXCEPT !.links = AddToSetEach(@, collOp.linkIds)]
                   ELSE @]
    /\ collOp' = [collOp EXCEPT !.pc = "links"]
    /\ UNCHANGED <<links, linkColls, filer, coreVars>>

\* Link.updateMany({ _id: { $in: linkIds } }, { $addToSet: { collections:
\* collectionId } }), then the response
addLinks ==
    /\ collOp.pc = "links" /\ collOp.handler = "addLinksToCollection"
    /\ linkColls' = [l \in LinkIds |->
                       IF Live(l) /\ l \in collOp.linkIds
                       THEN linkColls[l] \cup {collOp.collectionId}
                       ELSE linkColls[l]]
    /\ collOp' = Ended(collOp)
    /\ UNCHANGED <<links, colls, filer, coreVars>>

\* removeLinksFromCollection: Collection.findOne({ _id: collectionId, owner })
removeFind(c, L) ==
    /\ collOp.pc = "idle"
    /\ LiveColl(c)
    /\ L # {} /\ L \subseteq KnownLinks
    /\ collOp' = [IdleCollOp EXCEPT !.pc = "pull",
                                    !.handler = "removeLinksFromCollection",
                                    !.collectionId = c, !.linkIds = L]
    /\ UNCHANGED <<links, colls, linkColls, filer, coreVars>>

\* Collection.findByIdAndUpdate(collectionId, { $pull: { links: { $in:
\* linkIds } } })
removePull ==
    /\ collOp.pc = "pull" /\ collOp.handler = "removeLinksFromCollection"
    /\ colls' = [colls EXCEPT ![collOp.collectionId] =
                   IF @.state = "live" THEN [@ EXCEPT !.links = PullIn(@, collOp.linkIds)]
                   ELSE @]
    /\ collOp' = [collOp EXCEPT !.pc = "links"]
    /\ UNCHANGED <<links, linkColls, filer, coreVars>>

\* Link.updateMany({ _id: { $in: linkIds } }, { $pull: { collections:
\* collectionId } }), then the response
removeLinks ==
    /\ collOp.pc = "links" /\ collOp.handler = "removeLinksFromCollection"
    /\ linkColls' = [l \in LinkIds |->
                       IF Live(l) /\ l \in collOp.linkIds
                       THEN linkColls[l] \ {collOp.collectionId}
                       ELSE linkColls[l]]
    /\ collOp' = Ended(collOp)
    /\ UNCHANGED <<links, colls, filer, coreVars>>

\* bulkMoveLinks: the reads of the target collection, of the source
\* collection when one is given (0 is none) and of the links
moveFind(L, src, tgt) ==
    /\ collOp.pc = "idle"
    /\ LiveColl(tgt)
    /\ src = 0 \/ src \in {c \in CollIds : LiveColl(c)}
    /\ L # {} /\ L \subseteq KnownLinks
    /\ collOp' = IF \A l \in L : Live(l)
                 THEN [IdleCollOp EXCEPT !.pc = IF src = 0 THEN "addToSet" ELSE "pull",
                                         !.handler = "bulkMoveLinks",
                                         !.collectionId = tgt,
                                         !.sourceCollectionId = src, !.linkIds = L]
                 ELSE IdleCollOp
    /\ UNCHANGED <<links, colls, linkColls, filer, coreVars>>

\* Collection.findByIdAndUpdate(sourceCollectionId, { $pull: { links: { $in:
\* linkIds } } })
movePull ==
    /\ collOp.pc = "pull" /\ collOp.handler = "bulkMoveLinks"
    /\ colls' = [colls EXCEPT ![collOp.sourceCollectionId] =
                   IF @.state = "live" THEN [@ EXCEPT !.links = PullIn(@, collOp.linkIds)]
                   ELSE @]
    /\ collOp' = [collOp EXCEPT !.pc = "addToSet"]
    /\ UNCHANGED <<links, linkColls, filer, coreVars>>

\* Collection.findByIdAndUpdate(targetCollectionId, { $addToSet: { links: {
\* $each: linkIds } } })
moveAddToSet ==
    /\ collOp.pc = "addToSet" /\ collOp.handler = "bulkMoveLinks"
    /\ colls' = [colls EXCEPT ![collOp.collectionId] =
                   IF @.state = "live" THEN [@ EXCEPT !.links = AddToSetEach(@, collOp.linkIds)]
                   ELSE @]
    /\ collOp' = [collOp EXCEPT !.pc = "links"]
    /\ UNCHANGED <<links, linkColls, filer, coreVars>>

\* Link.updateMany({ _id: { $in: linkIds } }, { $pull: { collections: ... },
\* $addToSet: { collections: targetCollectionId } }): two operators on the
\* path collections in one update, which MongoDB rejects as conflicting; the
\* catch block answers 500 and the links stay as they were
moveLinks ==
    /\ collOp.pc = "links" /\ collOp.handler = "bulkMoveLinks"
    /\ collOp' = Ended(collOp)
    /\ UNCHANGED <<links, colls, linkColls, filer, coreVars>>

\* deleteCollection and deleteCollectionEnhanced (deleteCollection is the
\* second without deleteLinks): Collection.findOne({ _id: collectionId, owner })
dropFind(c, deleteLinks) ==
    /\ collOp.pc = "idle"
    /\ LiveColl(c)
    /\ collOp' = [IdleCollOp EXCEPT !.pc = "links",
                                    !.handler = "deleteCollectionEnhanced",
                                    !.collectionId = c, !.deleteLinks = deleteLinks,
                                    !.collection = colls[c]]
    /\ UNCHANGED <<links, colls, linkColls, filer, coreVars>>

\* Link.deleteMany({ _id: { $in: collection.links }, owner: user_id }) when
\* deleteLinks is "true", else Link.updateMany({ _id: { $in: collection.links
\* } }, { $pull: { collections: collectionId } }); neither when the
\* collection is empty
dropLinks ==
    /\ collOp.pc = "links" /\ collOp.handler = "deleteCollectionEnhanced"
    /\ links' = [l \in LinkIds |->
                   IF collOp.deleteLinks /\ Live(l) /\ includes(collOp.collection.links, l)
                   THEN Deleted(links[l]) ELSE links[l]]
    /\ linkColls' = [l \in LinkIds |->
                       IF Live(l) /\ includes(collOp.collection.links, l)
                       THEN IF collOp.deleteLinks THEN {}
                            ELSE linkColls[l] \ {collOp.collectionId}
                       ELSE linkColls[l]]
    /\ collOp' = [collOp EXCEPT !.pc = "delete"]
    /\ UNCHANGED <<colls, filer, coreVars>>

\* Collection.findByIdAndDelete(collectionId), then the response
dropCollection ==
    /\ collOp.pc = "delete" /\ collOp.handler = "deleteCollectionEnhanced"
    /\ colls' = [colls EXCEPT ![collOp.collectionId] =
                   [collectionSchema EXCEPT !.state = "deleted"]]
    /\ collOp' = Ended(collOp)
    /\ UNCHANGED <<links, linkColls, filer, coreVars>>

NextColl ==
    \/ \E l \in LinkIds, c \in Codes, u \in Urls : addurl(l, c, u)
    \/ \E l \in LinkIds : delFind(l)
    \/ delCache
    \/ delOne
    \/ \E c \in CollIds : createCollection(c)
    \/ createSystemCollections
    \/ \E l \in LinkIds, S \in SUBSET CollIds : ulcSet(l, S)
    \/ ulcAdd
    \/ ulcPull
    \/ \E c \in CollIds, L \in SUBSET LinkIds : addFind(c, L)
    \/ addToSet
    \/ addLinks
    \/ \E c \in CollIds, L \in SUBSET LinkIds : removeFind(c, L)
    \/ removePull
    \/ removeLinks
    \/ \E L \in SUBSET LinkIds, src \in {0} \cup CollIds, tgt \in CollIds : moveFind(L, src, tgt)
    \/ movePull
    \/ moveAddToSet
    \/ moveLinks
    \/ \E c \in CollIds, deleteLinks \in BOOLEAN : dropFind(c, deleteLinks)
    \/ dropLinks
    \/ dropCollection

\* Links, collections and the membership of the ones in the others
SpecColl == Init /\ [][NextColl]_vars

\* Worker processes started side by side on the queue
Fleet == MaxWorkers + 1

NextFiling ==
    \/ createSystemCollections
    \/ \E l \in LinkIds, c \in Codes, u \in Urls : addurl(l, c, u)
    \/ \E l \in LinkIds, u \in Urls : editFind(l, u)
    \/ editSave
    \/ editDel
    \/ \E c \in CollIds, deleteLinks \in BOOLEAN : dropFind(c, deleteLinks)
    \/ dropLinks
    \/ dropCollection
    \/ \E j \in JobIds : Load(j, Fleet)
    \/ \E j \in JobIds : Analyze(j)
    \/ \E j \in JobIds : Persist(j)
    \/ \E j \in JobIds : fileFind(j)
    \/ \E j \in JobIds : fileSave(j)
    \/ \E j \in JobIds : Catch(j)
    \/ \E j \in JobIds : Settle(j)

\* Two workers that analyse and file the links of an owner with system
\* collections, next to the handlers that edit a link and delete a collection
SpecFiling == Init /\ [][NextFiling]_vars

\* Calls of handleRedirect go on to their next step, the update of a cache
\* hit lands, and the TTL of a cache entry runs out
LiveSpec ==
    /\ Init /\ [][Next]_vars
    /\ \A c \in Codes : WF_vars(Expire(c))
    /\ \A r \in Resolvers : WF_vars(Find(r)) /\ WF_vars(SaveCount(r)) /\ WF_vars(SetCache(r))
    /\ \A r \in Resolvers : WF_vars(LazyInc(r))

\* ------------------------------------------------------------------------
\* Properties of the life of a link and of the cache
\* ------------------------------------------------------------------------
\* C15: when deleteUrl has deleted a link, the cache holds no entry for its
\* short code, a call of handleRedirect that starts for that code goes on to
\* the repository, and the lookup in the repository is answered 404.
C15_DeletedNeverResolves ==
    /\ [](\A l \in LinkIds :
            links[l].state = "deleted" => ~cache[links[l].shortId].present)
    /\ [][\A l \in LinkIds, r \in Resolvers :
            (links[l].state = "deleted" /\ req'[r].web_id = links[l].shortId)
            => /\ (req[r].pc = "idle" /\ req'[r].pc # "idle") => req'[r].pc = "find"
               /\ (req[r].pc = "find" /\ Responds(r)) => req'[r].result = NotFound]_vars

\* The redirect-relevant fields of a document or of a cache entry
RedirectFields(d) ==
    <<d.longUrl, d.analysisStatus, d.aiSafetyRating, d.aiSafetyJustification>>

\* C16: a cache entry is written only by a handler whose save() of the
\* document has succeeded, and the redirect-relevant fields it writes are
\* those of that document, which the handler read from the repository and
\* did not change: handleRedirect and editShortUrl never cache a destination,
\* status, rating or justification that the repository has not held.
C16_CacheWrittenAfterCommit ==
    [][/\ \A c \in Codes :
            (cache'[c].present /\ cache'[c] # cache[c])
            => \/ \E r \in Resolvers :
                    /\ req[r].pc = "set" /\ req[r].web_id = c
                    /\ RedirectFields(cache'[c]) = RedirectFields(req[r].doc)
               \/ /\ shortEditor.pc = "set" /\ shortEditor.newShortId = c
                  /\ RedirectFields(cache'[c]) = RedirectFields(shortEditor.oldLink)
       /\ \A r \in Resolvers :
            /\ (req[r].pc # "set" /\ req'[r].pc = "set")
               => /\ req[r].pc = "save"
                  /\ links'[req[r].linkId].viewerCount = req'[r].doc.viewerCount
                  /\ RedirectFields(req'[r].doc) = RedirectFields(req[r].doc)
            /\ (req[r].pc # "save" /\ req'[r].pc = "save")
               => /\ Live(req'[r].linkId)
                  /\ RedirectFields(req'[r].doc) = RedirectFields(links[req'[r].linkId])
       /\ (shortEditor.pc # "set" /\ shortEditor'.pc = "set")
          => /\ shortEditor.pc = "save"
             /\ links'[shortEditor.linkId].shortId = shortEditor.newShortId
             /\ RedirectFields(shortEditor'.oldLink) = RedirectFields(shortEditor.oldLink)
       /\ (shortEditor.pc = "idle" /\ shortEditor'.pc # "idle")
          => RedirectFields(shortEditor'.oldLink) = RedirectFields(links[shortEditor'.linkId])
       /\ (shortEditor.pc \in {"check", "del"} /\ shortEditor'.pc # "idle")
          => shortEditor'.oldLink = shortEditor.oldLink]_vars

\* An entry written by editShortUrl under the new code, after editLongUrl
\* changed the destination
C16_Witness ==
    \E l \in LinkIds :
        /\ Live(l) /\ links[l].shortId = CodeSeq[2] /\ links[l].longUrl = UrlSeq[2]
        /\ shortEditor.pc = "idle" /\ editor.pc = "idle"
        /\ cache[CodeSeq[2]].present /\ cache[CodeSeq[2]].longUrl = UrlSeq[2]
        /\ \A r \in Resolvers : req[r].pc = "idle"

\* Link l is stored as analysed and unsafe
Unsafe(l) ==
    /\ Live(l) /\ links[l].analysisStatus = "COMPLETED"
    /\ links[l].aiSafetyRating < SafetyThreshold

\* Neither the cache nor a call in progress holds data of link l that passes
\* the safety check
NothingStale(l) ==
    Live(l) =>
    /\ cache[links[l].shortId].present
       => SafetyGate(cache[links[l].shortId]).kind = "Warning"
    /\ \A r \in Resolvers :
         (req[r].web_id = links[l].shortId /\ req[r].pc \in {"save", "set"})
         => SafetyGate(toObject(req[r].doc)).kind = "Warning"

C18_CounterNeverDecreases ==
    /\ [](\A l \in LinkIds : links[l].viewerCount >= 0)
    /\ [][\A l \in LinkIds :
            (Live(l) /\ links'[l].state = "live")
            => links'[l].viewerCount >= links[l].viewerCount]_vars

\* C19: no two links have the same short code, and no step changes the short
\* code of a link.
C19_ShortCodeUniqueImmutable ==
    /\ [](\A l, k \in LinkIds :
            (Live(l) /\ Live(k) /\ l # k) => links[l].shortId # links[k].shortId)
    /\ [][\A l \in LinkIds :
            (Live(l) /\ links'[l].state = "live")
            => links'[l].shortId = links[l].shortId]_vars

\* ------------------------------------------------------------------------
\* Membership of links in collections
\* ------------------------------------------------------------------------
\* A call of handler h has just answered
Completes(h) == collOp.pc # "idle" /\ collOp.handler = h /\ collOp'.pc = "idle"

\* C12: when updateLinkCollections(link, S) answers, every collection of S
\* lists the link and no other collection lists it; with S empty no
\* collection lists it
C12_SetMembershipExact ==
    [][Completes("updateLinkCollections")
       => \A c \in CollIds :
            colls'[c].state = "live"
            => (includes(colls'[c].links, collOp.linkId) <=> c \in collOp.collectionIds)]_vars

\* A call with S = {1} has answered: collection 1 lists the link, the other
\* collections, which exist, do not
C12_Witness ==
    /\ collOp.pc = "idle" /\ collOp.handler = "updateLinkCollections"
    /\ collOp.collectionIds = {1}
    /\ \A c \in CollIds : LiveColl(c)
    /\ \A c \in CollIds : includes(colls[c].links, collOp.linkId) <=> c = 1
    /\ linkColls[collOp.linkId] = {1}

\* No call of a collection handler, no auto-filing and no deleteUrl is in
\* progress
Quiescent ==
    /\ collOp.pc = "idle" /\ deleter.pc = "idle"
    /\ \A j \in JobIds : filer[j].pc = "idle"

\* Link l names collection c exactly when c lists l
Symmetric(l, c) == c \in linkColls[l] <=> includes(colls[c].links, l)

\* C13: once the operations on memberships have completed, a link names a
\* collection exactly when the collection lists the link
C13_MembershipSymmetric ==
    Quiescent => \A l \in LinkIds, c \in CollIds : (Live(l) /\ LiveColl(c)) => Symmetric(l, c)

\* C14: when deleteUrl has deleted a link, no collection lists the link
C14_DeleteUrlLeavesNoMember ==
    [][(deleter.pc = "deleteOne" /\ deleter'.pc = "idle")
       => \A c \in CollIds : colls'[c].state = "live" => ~includes(colls'[c].links, deleter.linkId)]_vars

\* The step is the save of the worker's auto-filing
AutoFiling == \E j \in JobIds : filer[j].pc = "save" /\ filer'[j].pc = "idle"

\* C20: the links of a system collection change only by the worker's
\* auto-filing, and no step deletes a system collection
C20_SystemCollectionsOnlyAutoFiled ==
    [][\A c \in CollIds :
         (LiveColl(c) /\ colls[c].isSystem)
         => /\ colls'[c].state = "live"
            /\ colls'[c].links # colls[c].links => AutoFiling]_vars

\* ------------------------------------------------------------------------
\* The worker's processor and the analysis result
\* ------------------------------------------------------------------------
\* Job j's link.save() succeeds in this step
Persists(j) == jobs[j].state = "active" /\ jobs[j].pc = "save" /\ jobs'[j].pc = "assign"

\* C21: when the worker's save succeeds, the link holds the safety
\* justification, the safety rating and the category of the result that
\* analyzeUrlContent returned
C21_StoredEqualsAnalysis ==
    [][\A j \in JobIds :
         Persists(j)
         => LET link == links'[jobs[j].linkId]
                analysisResult == jobs[j].analysisResult IN
              /\ link.aiSafetyJustification = analysisResult.safety.justification
              /\ link.aiSafetyRating = analysisResult.safety.safety_rating
              /\ link.aiClassification.category = analysisResult.classification.category]_vars

\* ------------------------------------------------------------------------
\* The writes of one call of handleRedirect
\* ------------------------------------------------------------------------
\* C22: on a cache hit the call is answered in the step that reads the cache,
\* before the repository is written; the update left running then lands, and
\* when it lands it raises the viewerCount the repository holds at that
\* moment by exactly one and changes nothing else, so that it keeps every
\* increment that landed before it.
C22_HitIncrementsLazily ==
    /\ [][\A r \in Resolvers :
            /\ (req[r].pc = "idle" /\ req'[r].pc = "inc")
               => Responds(r) /\ links' = links
            /\ (req[r].pc = "inc" /\ req'[r].pc # "inc")
               => LET l == FindByShortId(links, req[r].web_id) IN
                    /\ l # 0
                    /\ links' = [links EXCEPT
                                   ![l].viewerCount = links[l].viewerCount + 1]
                    /\ req'[r].result = req[r].result]_vars
    /\ \A r \in Resolvers : (req[r].pc = "inc") ~> (req[r].pc = "done")

\* A call filled the cache, a second call hit it, and the update of the
\* second has landed on the count the first one saved
C22_Witness ==
    \E l \in LinkIds, r, q \in Resolvers :
        /\ Live(l) /\ links[l].viewerCount = 2
        /\ req[r].pc = "done" /\ req[r].web_id = links[l].shortId
        /\ req[r].cacheWrites = 1 /\ req[r].repoWrites = 1
        /\ req[q].pc = "done" /\ req[q].web_id = links[l].shortId
        /\ req[q].cacheWrites = 0 /\ req[q].repoWrites = 1

\* C23: a call of handleRedirect writes the repository at most once and the
\* cache at most once; a call that finds its key in the cache goes on without
\* a step that writes the cache, and the entry stays as it is in all its
\* steps; a call that misses the cache and finds its link saves the count and
\* writes the cache exactly once before it answers.
C23_WritesPerCall ==
    /\ [](\A r \in Resolvers : req[r].repoWrites <= 1 /\ req[r].cacheWrites <= 1)
    /\ [][\A r \in Resolvers :
            /\ (req[r].pc = "idle" /\ req'[r].pc # "idle" /\ cache[req'[r].web_id].present)
               => req'[r].pc = "inc" /\ cache' = cache
            /\ (req[r].pc = "inc" /\ req'[r] # req[r])
               => /\ cache' = cache
                  /\ req'[r].pc = "done" /\ req'[r].cacheWrites = 0
            /\ (req[r].pc = "find" /\ req'[r] # req[r]
                /\ FindByShortId(links, req[r].web_id) # 0)
               => req'[r].pc = "save" /\ links' = links /\ cache' = cache
            /\ (req[r].pc = "save" /\ req'[r] # req[r] /\ Live(req[r].linkId))
               => req'[r].pc = "set" /\ req'[r].repoWrites = 1 /\ cache' = cache
            /\ (req[r].pc = "set" /\ req'[r] # req[r])
               => /\ req'[r].pc = "done" /\ req'[r].cacheWrites = 1
                  /\ links' = links
                  /\ \A c \in Codes : c # req[r].web_id => cache'[c] = cache[c]]_vars

\* A call that missed the cache has saved and cached the link, and a call
\* that hit the entry has been answered while its update has not landed yet
C23_Witness ==
    \E l \in LinkIds, r, q \in Resolvers :
        /\ Live(l) /\ links[l].viewerCount = 1
        /\ req[r].pc = "done" /\ req[r].web_id = links[l].shortId
        /\ req[r].cacheWrites = 1 /\ req[r].repoWrites = 1
        /\ req[q].pc = "inc" /\ req[q].web_id = links[l].shortId
        /\ req[q].result.kind = "Direct"
        /\ req[q].cacheWrites = 0 /\ req[q].repoWrites = 0

\* C24: whenever a call of handleRedirect responds while the repository holds
\* its link as PENDING or FAILED, the response is the direct redirect to the
\* destination the repository holds, whatever the stored rating is.
C24_UnanalysedRedirectsDirect ==
    [][\A r \in Resolvers :
         LET c == req'[r].web_id
             v == RepoView(links, c) IN
           (/\ Responds(r)
            /\ v.present /\ v.analysisStatus \in {"PENDING", "FAILED"}
            /\ Settled(r, c))
           => req'[r].result = Direct(v.longUrl)]_vars

\* ------------------------------------------------------------------------
\* The retry loop of generateContentWithRetry
\* ------------------------------------------------------------------------
\* The prompt of a call of generateContentWithRetry is answered in this step
Answered == pipeline.pc = "await" /\ pipeline' # pipeline

\* C25: one call of generateContentWithRetry sends its prompt at most 3
\* times; after a rate-limit error it waits the seconds the error suggests,
\* 30 when it suggests none, and only then sends the prompt again; after the
\* third rate-limit error it throws without sending again; after any other
\* error it throws at once.
C25_RetryLoopBounded ==
    /\ [](pipeline.tries <= 3)
    /\ [][/\ (Answered /\ pipeline'.answer = "rate")
             => /\ pipeline'.pc = "wait" /\ pipeline'.delay = 30
                /\ pipeline'.sent = pipeline.sent /\ pipeline'.tries = pipeline.tries
          /\ (Answered /\ pipeline'.answer = "rate12")
             => /\ pipeline'.pc = "wait" /\ pipeline'.delay = 12
                /\ pipeline'.sent = pipeline.sent /\ pipeline'.tries = pipeline.tries
          /\ (Answered /\ pipeline'.answer = "error")
             => pipeline'.pc = "threw" /\ pipeline'.sent = pipeline.sent
          /\ (pipeline.pc = "wait" /\ pipeline' # pipeline /\ pipeline.tries < 3)
             => /\ pipeline'.pc = "await" /\ pipeline'.inflight = pipeline.inflight
                /\ pipeline'.tries = pipeline.tries + 1
                /\ pipeline'.sent = pipeline.sent + 1
          /\ (pipeline.pc = "wait" /\ pipeline' # pipeline /\ pipeline.tries >= 3)
             => pipeline'.pc = "threw" /\ pipeline'.sent = pipeline.sent]_vars

\* The prompt of the first chunk was sent three times and the third
\* rate-limit error suggested 12 seconds
C25_Witness ==
    /\ pipeline.pc = "wait" /\ pipeline.tries = 3 /\ pipeline.sent = 3
    /\ pipeline.answer = "rate12" /\ pipeline.delay = 12
    /\ pipeline.inflight = {Call("chunk", 1)}

\* C26: a rate-limit error on the first prompt of any call that
\* analyzeUrlContent makes to the capability does not make it throw: the
\* prompt is sent again.
C26_EveryCallRetried ==
    [][(/\ pipeline.pc \in {"await", "all"} /\ pipeline' # pipeline
        /\ RateLimited(pipeline'.answer) /\ pipeline.tries <= 1)
       => pipeline'.pc = "wait"]_vars

\* ------------------------------------------------------------------------
\* The worker's processor when the analysis or the link fails it
\* ------------------------------------------------------------------------
\* The AI paths of a stored link
AIFields(link) == <<link.aiSafetyRating, link.aiSafetyJustification, link.aiClassification>>

\* C27: when the capability's answer cannot be parsed, analyzeUrlContent
\* throws and writes nothing; the catch block leaves the link FAILED with its
\* rating, justification and classification as they were; and the queue sees
\* the job fail: waiting again while attempts remain, failed after the last.
C27_MalformedFailsJob ==
    [][\A j \in JobIds :
         /\ (jobs[j].pc = "analyze" /\ jobs'[j].error = "malformed")
            => jobs'[j].threw /\ jobs'[j].pc = "catch" /\ links' = links
         /\ (jobs[j].pc = "catch" /\ jobs[j].error = "malformed"
             /\ jobs'[j].pc = "return" /\ Live(jobs[j].linkId))
            => /\ links'[jobs[j].linkId].analysisStatus = "FAILED"
               /\ AIFields(links'[jobs[j].linkId]) = AIFields(links[jobs[j].linkId])
         /\ (jobs[j].pc = "return" /\ jobs[j].error = "malformed" /\ jobs'[j].pc = "-")
            => jobs'[j].state \in {"waiting", "failed"}]_vars

\* C28: when the processor finds no link for the job's linkId, it goes
\* straight to the catch block, so that neither the scrape nor the capability
\* is called; no link is created or changed; and the queue sees the job
\* failed for good, never waiting again.
C28_MissingLinkFailsForGood ==
    [][\A j \in JobIds :
         /\ (jobs[j].state = "waiting" /\ jobs'[j].state = "active"
             /\ ~Live(jobs[j].linkId))
            => /\ jobs'[j].pc = "catch" /\ jobs'[j].error = "Link not found"
               /\ jobs'[j].calls = 0 /\ links' = links
         /\ (jobs[j].error = "Link not found" /\ jobs'[j] # jobs[j])
            => /\ links' = links
               /\ jobs'[j].pc \in {"return", "-"}
               /\ jobs'[j].pc = "-" => jobs'[j].state = "failed"]_vars

\* The catch block's update of job j lands on its link in this step
Fails(j) ==
    /\ jobs[j].state = "active" /\ jobs[j].pc = "catch" /\ jobs'[j].pc = "return"
    /\ Live(jobs[j].linkId)

\* The step is editLongUrl's save of link l
EditSaves(l) == editor.pc = "save" /\ editor.linkId = l /\ editor'.pc = "del"

\* C29: the processor leaves the link COMPLETED when its save succeeds on a
\* link that still has the status the job loaded, and FAILED when its catch
\* block runs; from then on the status leaves COMPLETED or FAILED for PENDING
\* only by an edit of the link, so that a job that has been processed with no
\* edit meanwhile never leaves its link PENDING.
C29_ProcessedNeverPending ==
    [][/\ \A j \in JobIds :
            /\ (Persists(j)
                /\ links[jobs[j].linkId].analysisStatus = jobs[j].doc.analysisStatus)
               => links'[jobs[j].linkId].analysisStatus = "COMPLETED"
            /\ Fails(j) => links'[jobs[j].linkId].analysisStatus = "FAILED"
       /\ \A l \in LinkIds :
            (/\ Live(l) /\ links[l].analysisStatus \in {"COMPLETED", "FAILED"}
             /\ links'[l].state = "live"
             /\ links'[l].analysisStatus \notin {"COMPLETED", "FAILED"})
            => EditSaves(l)]_vars

\* A job was processed and settled, its link never having been edited, and
\* the link is COMPLETED with the rating of the analysis
C29_Witness ==
    \E l \in LinkIds, j \in JobIds :
        /\ Live(l) /\ ~Edited(l)
        /\ jobs[j].state = "completed" /\ jobs[j].linkId = l
        /\ links[l].analysisStatus = "COMPLETED" /\ links[l].aiSafetyRating = 2

\* C30: a FAILED link stays FAILED in every step in which a job of it is
\* taken, analysed, caught or settled; a FAILED link becomes COMPLETED only
\* in the step in which a job's save succeeds; and no step of the processor
\* makes a link PENDING.
C30_FailedUntilLaterSuccess ==
    [][\A l \in LinkIds :
         /\ (Live(l) /\ links[l].analysisStatus = "FAILED" /\ links'[l].state = "live")
            => /\ links'[l].analysisStatus = "COMPLETED"
                  => \E j \in JobIds : Persists(j) /\ jobs[j].linkId = l
               /\ links'[l].analysisStatus = "PENDING" => EditSaves(l)
         /\ (\E j \in JobIds : jobs[j].state = "active" /\ jobs'[j] # jobs[j])
            => (links'[l].analysisStatus = "PENDING"
                => links[l].analysisStatus = "PENDING")]_vars

\* An earlier job left the link FAILED, and a later job that loaded it FAILED
\* has its result ready to save
C30_Witness ==
    \E l \in LinkIds, j, k \in JobIds :
        /\ Live(l) /\ links[l].analysisStatus = "FAILED"
        /\ jobs[k].state = "completed" /\ jobs[k].linkId = l
        /\ jobs[j].state = "active" /\ jobs[j].linkId = l /\ jobs[j].pc = "save"
        /\ jobs[j].doc.analysisStatus = "FAILED"

\* ------------------------------------------------------------------------
\* Auto-filing by the job processor
\* ------------------------------------------------------------------------
\* Job j's auto-filing saves the system collection in this step
Files(j) ==
    /\ filer[j].pc = "save" /\ filer'[j].pc = "idle"
    /\ LiveColl(filer[j].systemCollection)

\* C31: the step in which auto-filing adds the link to the system collection
\* of the category also adds that collection to the link's collection
\* references, so that both sides list each other
C31_FilingBothSides ==
    [][\A j \in JobIds :
         Files(j)
         => /\ includes(colls'[filer[j].systemCollection].links, filer[j].linkId)
            /\ filer[j].systemCollection \in linkColls'[filer[j].linkId]]_vars

\* Job j's call of assignLinkToSystemCollection ends in this step
FilingEnds(j) == filer[j].pc # "idle" /\ filer'[j].pc = "idle"

\* C32: a failure of the auto-filing after the analysis was saved leaves the
\* link, its status and its analysis fields as they are and does not make the
\* job fail: the processor returns and the queue completes the job
C32_FilingFailureContained ==
    [][\A j \in JobIds :
         /\ FilingEnds(j)
            => /\ links' = links
               /\ jobs'[j].pc = "return" /\ ~jobs'[j].threw
         /\ (jobs[j].pc = "return" /\ jobs[j].error = "filing" /\ jobs'[j].pc = "-")
            => /\ links' = links
               /\ jobs'[j].state = "completed"]_vars

\* A job whose auto-filing failed has returned and its link is COMPLETED
C32_Witness ==
    \E j \in JobIds :
        /\ jobs[j].state = "active" /\ jobs[j].pc = "return"
        /\ jobs[j].error = "filing" /\ ~jobs[j].threw
        /\ Live(jobs[j].linkId)
        /\ links[jobs[j].linkId].analysisStatus = "COMPLETED"

\* The number of times the array of collection c holds link l
Count(cs, c, l) == Cardinality({i \in 1..Len(cs[c].links) : cs[c].links[i] = l})

\* The result job j is about to save is the analysis the link already holds
SameResult(j) ==
    /\ jobs[j].state = "active" /\ jobs[j].pc = "save"
    /\ Live(jobs[j].linkId)
    /\ links[jobs[j].linkId].analysisStatus = "COMPLETED"
    /\ AIFields(Assign(jobs[j].doc, jobs[j].analysisResult)) = AIFields(links[jobs[j].linkId])

\* C33: a job that saves the analysis the link already holds as COMPLETED
\* leaves the link as it is, and a job that starts its auto-filing when the
\* system collection of the category already lists the link ends it without a
\* save: no array of any collection changes
C33_PersistingIdempotent ==
    [][\A j \in JobIds :
         /\ (SameResult(j) /\ Persists(j)) => links' = links /\ colls' = colls
         /\ (/\ filer[j].pc = "find" /\ filer'[j] # filer[j]
             /\ SystemCollection(filer[j].category) # 0
             /\ Count(colls, SystemCollection(filer[j].category), filer[j].linkId) > 0)
            => /\ filer'[j].pc = "idle" /\ jobs'[j].pc = "return"
               /\ links' = links /\ colls' = colls]_vars

\* After a first job was completed and filed the link, a second job is about
\* to save the same analysis
C33_Witness ==
    \E j, k \in JobIds :
        /\ k # j /\ jobs[k].state = "completed" /\ jobs[k].linkId = jobs[j].linkId
        /\ SameResult(j)
        /\ SystemCollection(jobs[j].analysisResult.classification.category) # 0
        /\ Count(colls, SystemCollection(jobs[j].analysisResult.classification.category),
                 jobs[j].linkId) = 1

\* C34: whatever the interleaving of the workers' jobs for a link, the array
\* of a system collection holds the link at most once, and exactly once when
\* a job has filed it there
C34_FiledExactlyOnce ==
    /\ [](\A c \in CollIds, l \in LinkIds :
            (LiveColl(c) /\ colls[c].isSystem) => Count(colls, c, l) <= 1)
    /\ [][\A j \in JobIds :
            Files(j) => Count(colls', filer[j].systemCollection, filer[j].linkId) = 1]_vars

\* ------------------------------------------------------------------------
\* Jobs of a link that was edited
\* ------------------------------------------------------------------------
\* Job k has written its outcome to its link
Wrote(k) == jobs[k].state = "completed" \/ jobs[k].pc \in {"assign", "return"}

\* Job j analysed a destination the link no longer has, and a job enqueued
\* after it for the same link has already written its outcome
Outdated(j) ==
    /\ jobs[j].state = "active" /\ jobs[j].pc \in {"save", "catch"}
    /\ Live(jobs[j].linkId)
    /\ jobs[j].doc.state = "live"
    /\ jobs[j].doc.longUrl # links[jobs[j].linkId].longUrl
    /\ \E k \in JobIds : k > j /\ jobs[k].linkId = jobs[j].linkId /\ Wrote(k)

\* C35: a job that analysed a destination the link had before an edit never
\* overwrites, with COMPLETED or with FAILED, the status and the analysis that
\* the job for the new destination wrote
C35_OldJobNeverOverwrites ==
    [][\A j \in JobIds :
         (Outdated(j) /\ jobs'[j] # jobs[j])
         => /\ links'[jobs[j].linkId].analysisStatus = links[jobs[j].linkId].analysisStatus
            /\ AIFields(links'[jobs[j].linkId]) = AIFields(links[jobs[j].linkId])]_vars

\* A job of link l is queued or in flight
HasJob(l) == \E j \in JobIds : jobs[j].linkId = l /\ jobs[j].state \in {"waiting", "active"}

\* C36: a link with status PENDING has a job queued or in flight, or the
\* editLongUrl that made it PENDING is about to enqueue one; also when the
\* enqueue step of addurl or editLongUrl fails after the link was saved
C36_PendingHasJob ==
    \A l \in LinkIds :
        (Live(l) /\ links[l].analysisStatus = "PENDING")
        => HasJob(l) \/ (editor.pc = "del" /\ editor.linkId = l)

\* ------------------------------------------------------------------------
\* Re-analysis into another category
\* ------------------------------------------------------------------------
\* C37: when a job has filed its link under the category of its analysis, the
\* link is a member of the owner's system collection of that category and of
\* no other system collection, also when an earlier job had filed it under
\* another category (every other job of the link has been completed)
C37_OnlyNewCategory ==
    [][\A j \in JobIds :
         (/\ Files(j)
          /\ \A k \in JobIds \ {j} : jobs[k].linkId = filer[j].linkId
                                        => jobs[k].state = "completed")
         => \A c \in CollIds :
              (colls'[c].state = "live" /\ colls'[c].isSystem)
              => (Count(colls', c, filer[j].linkId) > 0
                  <=> colls'[c].systemCategory = filer[j].category)]_vars

\* ------------------------------------------------------------------------
\* Deleting a collection together with its links
\* ------------------------------------------------------------------------
\* The links that the call of deleteCollectionEnhanced in progress deleted
DroppedLinks ==
    {l \in LinkIds : collOp.deleteLinks /\ includes(collOp.collection.links, l)
                     /\ links[l].state = "deleted"}

\* Each id in the array of a collection is the id of an existing link
MembersExist ==
    \A c \in CollIds, l \in LinkIds : (LiveColl(c) /\ Count(colls, c, l) > 0) => Live(l)

\* C38: when deleteCollectionEnhanced with deleteLinks answers, no remaining
\* collection lists a link it deleted, no cache entry is left under the short
\* code of such a link and the repository holds no link under that code, so
\* that each id in a collection's array is the id of an existing link
C38_DeletedLinksGone ==
    [][Completes("deleteCollectionEnhanced")
       => /\ \A l \in DroppedLinks :
               /\ \A c \in CollIds : colls'[c].state = "live" => Count(colls', c, l) = 0
               /\ ~cache'[links[l].shortId].present
               /\ RepoView(links', links[l].shortId) = NoEntry
          /\ DroppedLinks # {} => MembersExist']_vars

====
